---- MODULE Spec2Model ----
(***************************************************************************)
(* A model of twitter-json-to-xml: TweetCollection (TweetCollection.py)    *)
(* reads one JSON tweet object per line, resolves retweets and quotes,     *)
(* sorts the <tweet> elements by created_at and writes tweets.xml;         *)
(* word_count.py reads tweets.xml back and sums the words of the <body>    *)
(* elements.                                                               *)
(***************************************************************************)
EXTENDS Integers, Sequences, FiniteSets, TLC

(***************************************************************************)
(* Bounds of the model.                                                    *)
(***************************************************************************)
\* Post identifiers are 1..MaxId.
MaxId == 3
\* The input file has at most MaxLines lines.
MaxLines == 2
\* write_xml is invoked at most MaxCalls times on the one instance.
MaxCalls == 2
\* The tweet objects of one line have at most MaxDefects defects in all: a
\* field that is not there, a created_at that is no timestamp.
MaxDefects == 1

Ids == 1..MaxId

(***************************************************************************)
(* Optional values: None is the empty sequence, Some(x) the one-element    *)
(* sequence (Python's None against a value).                               *)
(***************************************************************************)
None == <<>>
Some(x) == <<x>>

(***************************************************************************)
(* The values JSON fields take.                                            *)
(***************************************************************************)
\* created_at strings.  fmt tells whether the string matches
\* "%a %b %d %H:%M:%S %z %Y"; wall is the wall-clock reading and off the
\* UTC offset it carries (%z), both in hours.
CreatedAt == { [fmt |-> TRUE, wall |-> 1, off |-> 0],
               [fmt |-> TRUE, wall |-> 2, off |-> 2] }
Malformed(s) == [s EXCEPT !.fmt = FALSE]
DefaultCreatedAt == [fmt |-> TRUE, wall |-> 1, off |-> 0]

\* Texts are sequences of characters; " " is whitespace.
TextShort == <<"a">>
TextTwo == <<"a", " ", "b">>
TextThree == <<"a", " ", "b", " ", "c">>
TextEmpty == <<>>

EntitiesEmpty == [hashtags |-> <<>>, user_mentions |-> <<>>, urls |-> <<>>]
EntitiesFull ==
    [hashtags |-> << [text |-> <<"h", "1">>], [text |-> <<"h", "2">>] >>,
     user_mentions |-> << [screen_name |-> "bob", id_str |-> "90"] >>,
     urls |-> << [expanded_url |-> <<"u", "/", "1">>] >>]
EntitiesOne ==
    [hashtags |-> << [text |-> <<"h", "1">>] >>,
     user_mentions |-> <<>>,
     urls |-> <<>>]

\* The text and entity fields of a tweet object: a tweet that is not
\* truncated, one with an empty text and empty lists, and a truncated one
\* whose top-level text and entities are the shortened form.
Payloads == {"plain", "empty", "long"}
PayloadFields(p) ==
    CASE p = "plain" ->
           [truncated |-> FALSE, text |-> TextTwo, entities |-> EntitiesFull]
      [] p = "empty" ->
           [truncated |-> FALSE, text |-> TextEmpty, entities |-> EntitiesEmpty]
      [] p = "long" ->
           [truncated |-> TRUE, text |-> TextShort, entities |-> EntitiesOne,
            extended_tweet |-> [full_text |-> TextThree, entities |-> EntitiesFull]]

\* The fields a tweet object of the file may lack.
Droppable == {"id", "id_str", "created_at", "truncated", "text", "entities",
              "user", "extended_tweet"}
\* The defect of a created_at that does not match the format.
BadFormat == "%"

UserOf(i) == [screen_name |-> "user", id_str |-> ToString(i + 10)]

\* A line of the input file that is not a JSON object.
BadLine == 0

VARIABLES
    posts,          \* the posts the input file is about: id -> content
    lines,          \* the input file: each line a post's id, or BadLine
    parsed_tweets,  \* self.parsed_tweets: the generator json_reader returned
    tweet_ids,      \* self.tweet_ids
    output_tweets,  \* self.output_tweets
    xml_root,       \* self.xml_root: the children of <tweets>
    out_file,       \* the output file: None, or the document written
    pc,             \* where the driver is
    calls,          \* write_xml invocations begun
    pulled,         \* records the current invocation took from the generator
    docs,           \* the documents written, one per completed invocation
    word_count      \* what word_count.py reported, None before it ran

vars == <<posts, lines, parsed_tweets, tweet_ids, output_tweets, xml_root,
          out_file, pc, calls, pulled, docs, word_count>>


(***************************************************************************)
(* json.loads of a line: the tweet object of post i, with the tweet it     *)
(* retweets or quotes nested in it.  A post's content is the same wherever *)
(* the post occurs in the file; id_str is the decimal form of id.  The     *)
(* object of post j lacks field f when <<j, f>> is in defects, and its     *)
(* created_at is no timestamp when <<j, BadFormat>> is.                    *)
(***************************************************************************)
Has(d, k) == k \in DOMAIN d
Without(d, ks) == [x \in (DOMAIN d) \ ks |-> d[x]]

RECURSIVE JsonObject(_, _)
JsonObject(i, defects) ==
    LET p == posts[i]
        own == [id |-> i, id_str |-> ToString(i),
                created_at |-> IF <<i, BadFormat>> \in defects
                               THEN Malformed(p.created_at) ELSE p.created_at,
                user |-> UserOf(i)] @@ PayloadFields(p.payload)
        linked == CASE p.kind = "rt" ->
                         own @@ ("retweeted_status" :> JsonObject(p.ref, defects))
                    [] p.kind = "qt" ->
                         own @@ ("quoted_status" :> JsonObject(p.ref, defects))
                    [] OTHER -> own
    IN  Without(linked, {f \in Droppable : <<i, f>> \in defects})

(***************************************************************************)
(* lxml elements: a tag, attributes, an optional text and the children.    *)
(***************************************************************************)
NoAttrib == [k \in {} |-> None]
Element(tag) == [tag |-> tag, attrib |-> NoAttrib, text |-> None, children |-> <<>>]
\* elem.set(k, v)
SetAttr(elem, k, v) ==
    [elem EXCEPT !.attrib = [x \in (DOMAIN @) \cup {k} |-> IF x = k THEN v ELSE @[x]]]
\* etree.SubElement(parent, ...) with the child as built
SubElement(parent, child) == [parent EXCEPT !.children = Append(@, child)]
SetText(elem, t) == [elem EXCEPT !.text = Some(t)]

\* add_user: the <user> element of user_dict
add_user(user_dict) ==
    SetAttr(SetAttr(Element("user"), "screen_name", user_dict.screen_name),
            "id", user_dict.id_str)

\* A text element per entry of a list: <hashtag>, <url>
RECURSIVE TextElements(_, _, _)
TextElements(tag, list, key) ==
    IF list = <<>> THEN <<>>
    ELSE <<SetText(Element(tag), Head(list)[key])>>
         \o TextElements(tag, Tail(list), key)

RECURSIVE UserElements(_)
UserElements(list) ==
    IF list = <<>> THEN <<>>
    ELSE <<add_user(Head(list))>> \o UserElements(Tail(list))

\* add_tweet, lines 71-75: the text of the body
EffectiveTextPath(tweet_dict) ==
    IF tweet_dict.truncated THEN <<"extended_tweet", "full_text">> ELSE <<"text">>

EffectiveEntitiesPathTopLevel(tweet_dict) == <<"entities">>

\* add_details, lines 110-114: the entities used
EffectiveEntitiesPath(tweet_dict) ==
    IF tweet_dict.truncated THEN <<"extended_tweet", "entities">> ELSE <<"entities">>

\* d[path[1]][path[2]]...: whether every key is there, and the value
RECURSIVE HasPath(_, _)
HasPath(d, path) ==
    IF path = <<>> THEN TRUE
    ELSE Has(d, Head(path)) /\ HasPath(d[Head(path)], Tail(path))
RECURSIVE AtPath(_, _)
AtPath(d, path) == IF path = <<>> THEN d ELSE AtPath(d[Head(path)], Tail(path))

\* add_details, lines 120-123: the <user_mentions> element
MentionsElement(entities_dict) ==
    [Element("user_mentions") EXCEPT !.children = UserElements(entities_dict.user_mentions)]

\* add_details, lines 105-127, when no key is missing: the <details> element
DetailsElementWithoutEmptyMentions(tweet_dict) ==
    LET entities_dict == AtPath(tweet_dict, EffectiveEntitiesPath(tweet_dict))
    IN  [Element("details") EXCEPT !.children =
            <<add_user(tweet_dict.user)>>
            \o TextElements("hashtag", entities_dict.hashtags, "text")
            \o (IF entities_dict.user_mentions = <<>> THEN <<>>
                ELSE <<MentionsElement(entities_dict)>>)
            \o TextElements("url", entities_dict.urls, "expanded_url")]

DetailsElement(tweet_dict) ==
    LET entities_dict == AtPath(tweet_dict, EffectiveEntitiesPath(tweet_dict))
    IN  [Element("details") EXCEPT !.children =
            <<add_user(tweet_dict.user)>>
            \o TextElements("hashtag", entities_dict.hashtags, "text")
            \o <<MentionsElement(entities_dict)>>
            \o TextElements("url", entities_dict.urls, "expanded_url")]

\* add_details: parent_elem with the <details> child, as far as it was built
\* when a KeyError was raised (err)
add_details(parent_elem, tweet_dict) ==
    IF ~Has(tweet_dict, "user")
    THEN [elem |-> SubElement(parent_elem, Element("details")), err |-> TRUE]
    ELSE IF \/ ~Has(tweet_dict, "truncated")
            \/ ~HasPath(tweet_dict, EffectiveEntitiesPath(tweet_dict))
    THEN [elem |-> SubElement(parent_elem,
                              SubElement(Element("details"), add_user(tweet_dict.user))),
          err |-> TRUE]
    ELSE [elem |-> SubElement(parent_elem, DetailsElement(tweet_dict)), err |-> FALSE]

(***************************************************************************)
(* add_tweet.  st is [ids, out, err]: self.tweet_ids, self.output_tweets   *)
(* and whether an exception is propagating.  The <tweet> element is        *)
(* appended to output_tweets when created (line 60) and filled in place    *)
(* afterwards, so an exception leaves it there as far as it was built.     *)
(***************************************************************************)
Raise(st) == [st EXCEPT !.err = TRUE]
Put(st, idx, elem) == [st EXCEPT !.out[idx] = elem]

AlreadyCreatedNever(ids, tweet_dict) == FALSE
IsRetweetNever(tweet_dict) == FALSE

\* line 48
AlreadyCreated(ids, tweet_dict) == tweet_dict.id \in ids
\* line 54
IsRetweet(tweet_dict) == Has(tweet_dict, "retweeted_status")
\* line 65
IsQuote(tweet_dict) == Has(tweet_dict, "quoted_status")

RECURSIVE add_tweet(_, _)
\* lines 68-80, after the quoted tweet was added: body and details
add_body_and_details(st, idx, tweet_dict) ==
    LET tweet_elem == st.out[idx] IN
    IF ~Has(tweet_dict, "truncated")
    THEN Raise(Put(st, idx, SubElement(tweet_elem, Element("body"))))
    ELSE IF ~HasPath(tweet_dict, EffectiveTextPath(tweet_dict))
    THEN Raise(Put(st, idx, SubElement(tweet_elem, Element("body"))))
    ELSE LET body_elem == SetText(Element("body"),
                                  AtPath(tweet_dict, EffectiveTextPath(tweet_dict)))
             details == add_details(SubElement(tweet_elem, body_elem), tweet_dict)
         IN  IF details.err THEN Raise(Put(st, idx, details.elem))
             ELSE Put(st, idx, details.elem)

\* lines 64-67: the quoted tweet
add_quoted(st, idx, tweet_dict) ==
    IF ~Has(tweet_dict.quoted_status, "id_str") THEN Raise(st)
    ELSE add_tweet(Put(st, idx, SetAttr(st.out[idx], "quoted_from",
                                        tweet_dict.quoted_status.id_str)),
                   tweet_dict.quoted_status)

add_retweeted_dropped(st, tweet_dict) == st

\* line 55: the retweeted tweet
add_retweeted(st, tweet_dict) == add_tweet(st, tweet_dict.retweeted_status)

add_tweet(st, tweet_dict) ==
    IF ~Has(tweet_dict, "id") THEN Raise(st)
    ELSE IF AlreadyCreated(st.ids, tweet_dict) THEN st
    ELSE
    LET s1 == [st EXCEPT !.ids = @ \cup {tweet_dict.id}] IN
    IF IsRetweet(tweet_dict) THEN add_retweeted(s1, tweet_dict)
    ELSE
    LET idx == Len(s1.out) + 1
        s2 == [s1 EXCEPT !.out = Append(@, Element("tweet"))]
    IN
    IF ~Has(tweet_dict, "id_str") THEN Raise(s2)
    ELSE
    LET s3 == Put(s2, idx, SetAttr(s2.out[idx], "id", tweet_dict.id_str)) IN
    IF ~Has(tweet_dict, "created_at") THEN Raise(s3)
    ELSE
    LET s4 == Put(s3, idx, SetAttr(s3.out[idx], "created_at", tweet_dict.created_at))
        s5 == IF IsQuote(tweet_dict) THEN add_quoted(s4, idx, tweet_dict) ELSE s4
    IN
    IF s5.err THEN s5 ELSE add_body_and_details(s5, idx, tweet_dict)


(***************************************************************************)
(* write_xml, line 28: the sort by parsed created_at.                      *)
(***************************************************************************)
\* datetime.strptime(s, "%a %b %d %H:%M:%S %z %Y") raises ValueError
StrptimeRaises(s) == ~s.fmt
\* The aware datetime parsed, as the instant it denotes: aware datetimes
\* compare by wall-clock reading minus UTC offset.
Strptime(s) == s.wall - s.off

SortKeyWallClock(tweet_elem) == tweet_elem.attrib.created_at.wall

\* The key of the sort
SortKey(tweet_elem) == Strptime(tweet_elem.attrib.created_at)

\* list.sort is stable: insertion after the last element not greater
RECURSIVE InsertSorted(_, _)
InsertSorted(sorted, elem) ==
    IF sorted = <<>> THEN <<elem>>
    ELSE LET last == sorted[Len(sorted)] IN
         IF SortKey(last) <= SortKey(elem) THEN Append(sorted, elem)
         ELSE Append(InsertSorted(SubSeq(sorted, 1, Len(sorted) - 1), elem), last)

RECURSIVE SortedFrom(_, _)
SortedFrom(sorted, rest) ==
    IF rest = <<>> THEN sorted
    ELSE SortedFrom(InsertSorted(sorted, Head(rest)), Tail(rest))

Sorted(list) == SortedFrom(<<>>, list)

(***************************************************************************)
(* write_xml, lines 33-35: the document as tweets.xml holds it.  XML text  *)
(* cannot tell an element whose text is the empty string from one that has *)
(* no text: both are written <body/> (or <body></body>) and read back with *)
(* text None.  (The indentation pretty_print adds goes to elements that    *)
(* have children, never to a <body>, and is left out.)                     *)
(***************************************************************************)
RECURSIVE tostring(_)
RECURSIVE tostring_all(_)
tostring(elem) ==
    [tag |-> elem.tag,
     attrib |-> elem.attrib,
     text |-> IF elem.text = Some(<<>>) THEN None ELSE elem.text,
     children |-> tostring_all(elem.children)]
tostring_all(list) ==
    IF list = <<>> THEN <<>>
    ELSE <<tostring(Head(list))>> \o tostring_all(Tail(list))

RootElement(children) == [Element("tweets") EXCEPT !.children = children]

(***************************************************************************)
(* word_count.py                                                           *)
(***************************************************************************)
IsSpace(c) == c = " "

\* len(text.split()): the maximal runs of characters that are no whitespace
RECURSIVE SplitLen(_)
SplitLen(text) ==
    IF text = <<>> THEN 0
    ELSE IF IsSpace(Head(text)) THEN SplitLen(Tail(text))
    ELSE IF Len(text) = 1 \/ IsSpace(text[2]) THEN 1 + SplitLen(Tail(text))
    ELSE SplitLen(Tail(text))

\* xml_tree.iter('body'): the <body> elements in document order
RECURSIVE IterTag(_, _)
RECURSIVE IterTagList(_, _)
IterTag(elem, tag) ==
    (IF elem.tag = tag THEN <<elem>> ELSE <<>>) \o IterTagList(elem.children, tag)
IterTagList(list, tag) ==
    IF list = <<>> THEN <<>>
    ELSE IterTag(Head(list), tag) \o IterTagList(Tail(list), tag)

\* body.text.split() on a body whose text is None: AttributeError
BodyRaises(body) == body.text = None
BodyWords(body) == SplitLen(body.text[1])

RECURSIVE SumWords(_)
SumWords(bodies) ==
    IF bodies = <<>> THEN 0 ELSE BodyWords(Head(bodies)) + SumWords(Tail(bodies))

\* print(sum(count_words(tree))): the total, or the AttributeError that
\* ends the script
count_words(xml_tree) ==
    LET bodies == IterTag(xml_tree, "body") IN
    IF \E k \in 1..Len(bodies) : BodyRaises(bodies[k])
    THEN [error |-> "AttributeError", total |-> 0]
    ELSE [error |-> "", total |-> SumWords(bodies)]


(***************************************************************************)
(* The input files.  Posts refer to posts of a smaller id (the nesting of  *)
(* JSON objects is finite); a post no line reaches, and the fields of a    *)
(* retweet that add_tweet never reads, are fixed.                          *)
(***************************************************************************)
LineSeqs == UNION { [1..n -> Ids \cup {BadLine}] : n \in 0..MaxLines }

LinkChoices ==
    { lk \in [Ids -> [kind : {"none", "rt", "qt"}, ref : 0..MaxId]] :
        \A i \in Ids : IF lk[i].kind = "none" THEN lk[i].ref = 0
                       ELSE lk[i].ref \in 1..(i - 1) }

RECURSIVE ReachFrom(_, _)
ReachFrom(lk, i) ==
    {i} \cup (IF lk[i].kind = "none" THEN {} ELSE ReachFrom(lk, lk[i].ref))
Reach(ls, lk) == UNION { ReachFrom(lk, ls[k]) : k \in {j \in DOMAIN ls : ls[j] # BadLine} }

\* The defects the tweet objects of a line can have: of a retweet, the lack
\* of the one field add_tweet reads besides retweeted_status; of another
\* tweet, any.
DefectSites(i) ==
    { s \in ReachFrom(posts, i) \X (Droppable \cup {BadFormat}) :
            /\ posts[s[1]].kind = "rt" => s[2] = "id"
            /\ s[2] = "extended_tweet" => posts[s[1]].payload = "long" }

RECURSIVE SmallSubsets(_, _)
SmallSubsets(S, k) ==
    IF k <= 0 THEN {{}}
    ELSE LET smaller == SmallSubsets(S, k - 1) IN
         smaller \cup { T \cup {x} : T \in smaller, x \in S }

Init ==
    /\ \E ls \in LineSeqs, lk \in LinkChoices :
         LET reached == Reach(ls, lk)
             originals == {i \in reached : lk[i].kind # "rt"}
         IN
         /\ \A i \in Ids \ reached : lk[i].kind = "none"
         /\ \E cr \in [originals -> CreatedAt], pl \in [originals -> Payloads] :
                /\ lines = ls
                /\ posts =
                     [i \in Ids |->
                        [kind |-> lk[i].kind,
                         ref |-> lk[i].ref,
                         created_at |-> IF i \in originals THEN cr[i]
                                        ELSE DefaultCreatedAt,
                         payload |-> IF i \in originals THEN pl[i] ELSE "plain"]]
    /\ parsed_tweets = [pos |-> 0, closed |-> FALSE]
    /\ tweet_ids = {}
    /\ output_tweets = <<>>
    /\ xml_root = <<>>
    /\ out_file = None
    /\ pc = "idle"
    /\ calls = 0
    /\ pulled = 0
    /\ docs = <<>>
    /\ word_count = None

(***************************************************************************)
(* write_xml, a step at a time.  An exception propagates out of write_xml  *)
(* and, main() catching nothing, ends the run (pc = "raised").  The output *)
(* file does not exist when the run starts.                                *)
(***************************************************************************)
\* write_xml were it to call json_reader itself
WriteXmlBeginReopening ==
    /\ pc = "idle"
    /\ calls < MaxCalls
    /\ output_tweets' = <<>>
    /\ parsed_tweets' = [pos |-> 0, closed |-> FALSE]
    /\ calls' = calls + 1
    /\ pulled' = 0
    /\ pc' = "loop"
    /\ UNCHANGED <<posts, lines, tweet_ids, xml_root, out_file, docs, word_count>>

\* line 24
WriteXmlBegin ==
    /\ pc = "idle"
    /\ calls < MaxCalls
    /\ output_tweets' = <<>>
    /\ calls' = calls + 1
    /\ pulled' = 0
    /\ pc' = "loop"
    /\ UNCHANGED <<posts, lines, parsed_tweets, tweet_ids, xml_root, out_file,
                   docs, word_count>>

\* json_reader: whether the generator has a line left to read
HasNextLine == ~parsed_tweets.closed /\ parsed_tweets.pos < Len(lines)
NextLine == lines[parsed_tweets.pos + 1]

\* lines 25-26: the generator yields the next tweet, add_tweet runs on it
AddNextTweet ==
    /\ pc = "loop"
    /\ HasNextLine
    /\ NextLine # BadLine
    /\ \E defects \in SmallSubsets(DefectSites(NextLine), MaxDefects) :
         LET st == add_tweet([ids |-> tweet_ids, out |-> output_tweets, err |-> FALSE],
                             JsonObject(NextLine, defects))
         IN  /\ tweet_ids' = st.ids
             /\ output_tweets' = st.out
             /\ pc' = IF st.err THEN "raised" ELSE "loop"
    /\ parsed_tweets' = [parsed_tweets EXCEPT !.pos = @ + 1]
    /\ pulled' = pulled + 1
    /\ UNCHANGED <<posts, lines, xml_root, out_file, calls, docs, word_count>>

\* line 137: json.loads raises on the next line; the generator is finished
JsonDecodeError ==
    /\ pc = "loop"
    /\ HasNextLine
    /\ NextLine = BadLine
    /\ parsed_tweets' = [pos |-> parsed_tweets.pos + 1, closed |-> TRUE]
    /\ pc' = "raised"
    /\ UNCHANGED <<posts, lines, tweet_ids, output_tweets, xml_root, out_file,
                   calls, pulled, docs, word_count>>

\* line 25: the generator is exhausted (and stays so)
LoopEnd ==
    /\ pc = "loop"
    /\ ~HasNextLine
    /\ parsed_tweets' = [parsed_tweets EXCEPT !.closed = TRUE]
    /\ pc' = "sort"
    /\ UNCHANGED <<posts, lines, tweet_ids, output_tweets, xml_root, out_file,
                   calls, pulled, docs, word_count>>

SortRaises ==
    \E k \in 1..Len(output_tweets) : StrptimeRaises(output_tweets[k].attrib.created_at)

\* line 28
Sort ==
    /\ pc = "sort"
    /\ ~SortRaises
    /\ output_tweets' = Sorted(output_tweets)
    /\ pc' = "append"
    /\ UNCHANGED <<posts, lines, parsed_tweets, tweet_ids, xml_root, out_file,
                   calls, pulled, docs, word_count>>

\* write_xml were it to write the file before it sorts
SortValueErrorAfterWrite ==
    /\ pc = "sort"
    /\ SortRaises
    /\ out_file' = Some(tostring(RootElement(xml_root \o output_tweets)))
    /\ pc' = "raised"
    /\ UNCHANGED <<posts, lines, parsed_tweets, tweet_ids, output_tweets, xml_root,
                   calls, pulled, docs, word_count>>

\* line 28: a created_at does not match the format
SortValueError ==
    /\ pc = "sort"
    /\ SortRaises
    /\ pc' = "raised"
    /\ UNCHANGED <<posts, lines, parsed_tweets, tweet_ids, output_tweets, xml_root,
                   out_file, calls, pulled, docs, word_count>>

\* lines 30-31: append moves an element that is a child of the root already
AppendToRoot ==
    /\ pc = "append"
    /\ xml_root' = SelectSeq(xml_root, LAMBDA e :
                        \A k \in 1..Len(output_tweets) : output_tweets[k] # e)
                    \o output_tweets
    /\ pc' = "write"
    /\ UNCHANGED <<posts, lines, parsed_tweets, tweet_ids, output_tweets, out_file,
                   calls, pulled, docs, word_count>>

\* lines 33-35
WriteFile ==
    /\ pc = "write"
    /\ out_file' = Some(tostring(RootElement(xml_root)))
    /\ docs' = Append(docs, xml_root)
    /\ word_count' = None
    /\ pc' = "idle"
    /\ UNCHANGED <<posts, lines, parsed_tweets, tweet_ids, output_tweets, xml_root,
                   calls, pulled>>

\* word_count.py, run on the file a completed write_xml left
WordCount ==
    /\ pc = "idle"
    /\ out_file # None
    /\ word_count' = Some(count_words(out_file[1]))
    /\ UNCHANGED <<posts, lines, parsed_tweets, tweet_ids, output_tweets, xml_root,
                   out_file, pc, calls, pulled, docs>>

Next ==
    \/ WriteXmlBegin
    \/ AddNextTweet
    \/ JsonDecodeError
    \/ LoopEnd
    \/ Sort
    \/ SortValueError
    \/ AppendToRoot
    \/ WriteFile
    \/ WordCount

Spec == Init /\ [][Next]_vars


(***************************************************************************)
(* What the properties speak of.                                           *)
(***************************************************************************)
\* The <tweet> elements of the document in the output file
Written == out_file # None
Doc == IF Written THEN out_file[1].children ELSE <<>>

\* The posts whose tweet objects occur in the input file, at any depth
InInput == Reach(lines, posts)
\* Those that carry retweeted_status
Retweets == {i \in InInput : posts[i].kind = "rt"}
\* The lines whose tweet objects include post i
LinesWith(i) == {k \in DOMAIN lines : lines[k] # BadLine /\ i \in ReachFrom(posts, lines[k])}

IdStr(i) == ToString(i)
WithId(doc, id_str) == {k \in DOMAIN doc : doc[k].attrib.id = id_str}
ChildrenWithTag(elem, tag) == SelectSeq(elem.children, LAMBDA c : c.tag = tag)

\* The text and the entities of post i that are in force
InForce(i) ==
    LET f == PayloadFields(posts[i].payload) IN
    IF f.truncated
    THEN [text |-> f.extended_tweet.full_text, entities |-> f.extended_tweet.entities]
    ELSE [text |-> f.text, entities |-> f.entities]

\* What a <details> element shows, and what entities have to show
Shown(details) ==
    [hashtags |-> [k \in DOMAIN ChildrenWithTag(details, "hashtag") |->
                      ChildrenWithTag(details, "hashtag")[k].text],
     mentions |-> IF ChildrenWithTag(details, "user_mentions") = <<>> THEN <<>>
                  ELSE [k \in DOMAIN ChildrenWithTag(details, "user_mentions")[1].children |->
                          ChildrenWithTag(details, "user_mentions")[1].children[k].attrib],
     urls |-> [k \in DOMAIN ChildrenWithTag(details, "url") |->
                  ChildrenWithTag(details, "url")[k].text]]
ToShow(entities) ==
    [hashtags |-> [k \in DOMAIN entities.hashtags |-> Some(entities.hashtags[k].text)],
     mentions |-> [k \in DOMAIN entities.user_mentions |->
                      [screen_name |-> entities.user_mentions[k].screen_name,
                       id |-> entities.user_mentions[k].id_str]],
     urls |-> [k \in DOMAIN entities.urls |-> Some(entities.urls[k].expanded_url)]]

\* A <tweet> element carries the body and the entities in force of post i
CarriesInForce(tweet_elem, i) ==
    /\ Len(ChildrenWithTag(tweet_elem, "body")) = 1
    /\ ChildrenWithTag(tweet_elem, "body")[1].text = Some(InForce(i).text)
    /\ Len(ChildrenWithTag(tweet_elem, "details")) = 1
    /\ Shown(ChildrenWithTag(tweet_elem, "details")[1]) = ToShow(InForce(i).entities)

\* The words of the <body> elements, one without text counting for zero
WordsOf(body) == IF body.text = None THEN 0 ELSE SplitLen(body.text[1])
RECURSIVE TotalWords(_)
TotalWords(bodies) ==
    IF bodies = <<>> THEN 0 ELSE WordsOf(Head(bodies)) + TotalWords(Tail(bodies))

(***************************************************************************)
(* C1: the document in the output file holds at most one <tweet> element   *)
(* per post identifier, however often the identifier occurs in the input.  *)
(***************************************************************************)
C1_OneElementPerId ==
    \A j, k \in DOMAIN Doc : Doc[j].attrib.id = Doc[k].attrib.id => j = k

\* A post that two lines include has its element in the document.
C1_Witness ==
    /\ Written
    /\ \E i \in Ids : /\ Cardinality(LinesWith(i)) >= 2
                      /\ WithId(Doc, IdStr(i)) # {}

(***************************************************************************)
(* C2: every identifier that is the quoted_from of a <tweet> element of    *)
(* the document is the id of a <tweet> element of the document.            *)
(***************************************************************************)
C2_QuotedFromIsAnId ==
    \A k \in DOMAIN Doc :
        "quoted_from" \in DOMAIN Doc[k].attrib =>
            WithId(Doc, Doc[k].attrib.quoted_from) # {}

(***************************************************************************)
(* C3: no <tweet> element of the document has the identifier of a tweet    *)
(* object that carried retweeted_status, at whatever depth it occurred.    *)
(***************************************************************************)
C3_NoRetweetElement ==
    \A i \in Retweets : WithId(Doc, IdStr(i)) = {}

\* A document written from a retweet nested in a quoted_status or in
\* another retweeted_status.
C3_Witness ==
    /\ Written
    /\ Doc # <<>>
    /\ \E i \in InInput : posts[i].kind # "none" /\ posts[i].ref \in Retweets

(***************************************************************************)
(* C4: the <tweet> elements of the document are in non-decreasing order of *)
(* the instants their created_at denote.                                   *)
(***************************************************************************)
C4_Chronological ==
    \A j, k \in DOMAIN Doc :
        j < k => Strptime(Doc[j].attrib.created_at) <= Strptime(Doc[k].attrib.created_at)

\* One line, a tweet quoting another: the quoting tweet was inserted first
\* and stands after the quoted one, which is strictly earlier.
C4_Witness ==
    /\ Written
    /\ Len(lines) = 1
    /\ Len(Doc) = 2
    /\ "quoted_from" \in DOMAIN Doc[2].attrib
    /\ Doc[2].attrib.quoted_from = Doc[1].attrib.id
    /\ Strptime(Doc[1].attrib.created_at) < Strptime(Doc[2].attrib.created_at)
    /\ Doc[1].attrib.created_at.wall > Doc[2].attrib.created_at.wall

(***************************************************************************)
(* C5: an invocation of write_xml that raises leaves the output file as it *)
(* was: the file holds the document of the last invocation that completed  *)
(* (none before one did), it is written only by an invocation that         *)
(* resolved every record and sorted, and the document then written holds   *)
(* an element for every post resolved.                                     *)
(***************************************************************************)
C5_NoPartialOutput ==
    /\ Len(docs) = (IF pc = "idle" THEN calls ELSE calls - 1)
    /\ out_file = (IF docs = <<>> THEN None
                   ELSE Some(tostring(RootElement(docs[Len(docs)]))))
    /\ Written =>
         /\ parsed_tweets.closed
         /\ \A i \in tweet_ids \ Retweets : WithId(Doc, IdStr(i)) # {}

\* An invocation raised after it had resolved a post.
C5_Witness ==
    /\ pc = "raised"
    /\ ~Written
    /\ Len(output_tweets) >= 2

(***************************************************************************)
(* C6: word_count.py reports, for every document, the sum over the <body>  *)
(* elements of their numbers of words, a <body> without text counting for  *)
(* zero; it does not fail.                                                 *)
(***************************************************************************)
C6_EmptyBodyCountsZero ==
    word_count # None =>
        /\ word_count[1].error = ""
        /\ word_count[1].total = TotalWords(IterTag(out_file[1], "body"))

(***************************************************************************)
(* C7: the body and the hashtag, mention and url children of every <tweet> *)
(* element come from the same branch of its tweet object: extended_tweet   *)
(* when truncated is true, the top level when it is false.                 *)
(***************************************************************************)
C7_SameBranch ==
    \A k \in DOMAIN xml_root :
        \A i \in Ids : xml_root[k].attrib.id = IdStr(i) => CarriesInForce(xml_root[k], i)

\* A truncated tweet is in the document written.
C7_Witness ==
    /\ Written
    /\ \E k \in DOMAIN xml_root :
         \E i \in Ids : /\ xml_root[k].attrib.id = IdStr(i)
                        /\ PayloadFields(posts[i].payload).truncated

(***************************************************************************)
(* C8: for every tweet object R of the input with retweeted_status S, S no *)
(* retweet itself, the document holds exactly one <tweet> element for S,   *)
(* with S's id_str, created_at, body and details, and none for R.          *)
(***************************************************************************)
C8_RetweetedOriginal ==
    Written =>
        \A r \in Retweets :
            LET s_ == posts[r].ref IN
            s_ \notin Retweets =>
                /\ Cardinality(WithId(xml_root, IdStr(s_))) = 1
                /\ \A k \in WithId(xml_root, IdStr(s_)) :
                      /\ xml_root[k].attrib.created_at = posts[s_].created_at
                      /\ CarriesInForce(xml_root[k], s_)
                      /\ ChildrenWithTag(ChildrenWithTag(xml_root[k], "details")[1],
                                         "user")[1] = add_user(UserOf(s_))
                /\ WithId(xml_root, IdStr(r)) = {}
                /\ WithId(Doc, IdStr(r)) = {}
                /\ Cardinality(WithId(Doc, IdStr(s_))) = 1

\* A retweet whose original is in no other tweet object of the input, and
\* the document written.
C8_Witness ==
    /\ Written
    /\ \E r \in Retweets :
         /\ posts[r].ref \notin Retweets
         /\ \A i \in InInput \ {r} : posts[i].kind = "none" \/ posts[i].ref # posts[r].ref
         /\ \A k \in DOMAIN lines : lines[k] # posts[r].ref
         /\ Len(Doc) = 1

(***************************************************************************)
(* C9: in the document written every <tweet> has exactly one <body> and    *)
(* one <details>; every <details> has exactly one <user> child, exactly    *)
(* one <user_mentions> child holding a <user> per mention, a <hashtag> per *)
(* hashtag and a <url> per url of the entities in force.                   *)
(***************************************************************************)
C9_Structure ==
    \A k \in DOMAIN Doc :
        \A i \in Ids : Doc[k].attrib.id = IdStr(i) =>
            /\ Len(Doc[k].children) = 2
            /\ Len(ChildrenWithTag(Doc[k], "body")) = 1
            /\ Len(ChildrenWithTag(Doc[k], "details")) = 1
            /\ LET details == ChildrenWithTag(Doc[k], "details")[1]
                   entities == InForce(i).entities
               IN  /\ Len(ChildrenWithTag(details, "user")) = 1
                   /\ Len(ChildrenWithTag(details, "user_mentions")) = 1
                   /\ Len(ChildrenWithTag(details, "user_mentions")[1].children)
                        = Len(entities.user_mentions)
                   /\ \A m \in DOMAIN ChildrenWithTag(details, "user_mentions")[1].children :
                        ChildrenWithTag(details, "user_mentions")[1].children[m].tag = "user"
                   /\ Len(ChildrenWithTag(details, "hashtag")) = Len(entities.hashtags)
                   /\ Len(ChildrenWithTag(details, "url")) = Len(entities.urls)
                   /\ Len(details.children)
                        = 2 + Len(entities.hashtags) + Len(entities.urls)

\* A tweet whose lists are empty is in the document written.
C9_Witness ==
    /\ Written
    /\ \E k \in DOMAIN Doc :
         \E i \in Ids : /\ Doc[k].attrib.id = IdStr(i)
                        /\ InForce(i).entities.user_mentions = <<>>
                        /\ InForce(i).entities.hashtags = <<>>

(***************************************************************************)
(* C10: an invocation of write_xml after one that completed gets no record *)
(* from the generator and writes the document the first one wrote.         *)
(***************************************************************************)
C10_Reuse ==
    /\ calls >= 2 => pulled = 0 /\ pc # "raised"
    /\ \A k \in DOMAIN docs : docs[k] = docs[1]
    /\ Len(docs) >= 2 => out_file = Some(tostring(RootElement(docs[1])))

\* The second invocation completed, on a document that is not empty.
C10_Witness ==
    /\ Len(docs) = 2
    /\ docs[1] # <<>>
    /\ pc = "idle"

====
